---- MODULE Spec2Model ----
(***************************************************************************)
(* Model of the bulk-ingestion endpoint POST /insert of the reporting API  *)
(* (src/fastapi-app/main.py, insert_data and its get_db dependency).       *)
(*                                                                         *)
(* One ingest call is followed from the acquisition of its connection to   *)
(* the release of it.  Every await of the handler is a step of its own, so *)
(* that the store can fail at each of them.                                *)
(***************************************************************************)
EXTENDS Integers, Sequences, FiniteSets, TLC

VARIABLES
    pc,              \* position of the handler
    conn,            \* the connection of get_db: "none", "open", "closed"
    txn,             \* the transaction: "none", "open", "committed", "rolledback"
    committed,       \* the store: table name -> sequence of committed rows
    pending,         \* rows inserted by the open transaction, not yet committed
    nextId,          \* the store's identifier sequence of each table
    request,         \* the request as the caller sent it: [table, data]
    records,         \* request.data as the handler sees it (records are mutated in place)
    i,               \* 1-based position of `for record in request.data`
    valid_records,   \* references (positions in request.data) appended to valid_records
    failed_records,  \* references (positions in request.data) appended to failed_records
    dep_exists,      \* local of the same name
    j,               \* 1-based position of `for record in valid_records`
    exc,             \* the exception in flight
    response,        \* what the caller receives
    before,          \* the store when the call began (history)
    log,             \* every interaction with the store, in order (history)
    first,           \* what the first call of a resubmitted request did (history)
    other,           \* a second ingest call, running at the same time on a connection of its own
    restore          \* a run of restore_table (scripts/backup/restore.py)

vars == <<pc, conn, txn, committed, pending, nextId, request, records, i,
          valid_records, failed_records, dep_exists, j, exc, response, before, log,
          first, other, restore>>

\* ------------------------------------------------------------------ bounds

\* Longest input batch.
MaxBatch == 3

\* ------------------------------------------------------------------ values

\* JSON values and Python objects: a tag, the tokens of a string, a number.
Str(toks) == [t |-> "str", s |-> toks, n |-> 0]
Num(k) == [t |-> "int", s |-> <<>>, n |-> k]
Datetime(toks) == [t |-> "datetime", s |-> toks, n |-> 0]

Range(f) == {f[k] : k \in DOMAIN f}

\* str.replace(old, new), on the tokens of the string.
str_replace(s, old, new) == [k \in DOMAIN s |-> IF s[k] = old THEN new ELSE s[k]]

\* The date-time bodies and the UTC offsets datetime.fromisoformat accepts.
IsoDateTimes == {"2021-05-15T14:30:00"}
IsoOffsets == {"+00:00"}

\* datetime.fromisoformat(s): a datetime, or ValueError.
fromisoformat(s) ==
    IF /\ Len(s) \in {1, 2}
       /\ s[1] \in IsoDateTimes
       /\ Len(s) = 2 => s[2] \in IsoOffsets
    THEN [raised |-> "none", value |-> Datetime(s)]
    ELSE [raised |-> "ValueError", value |-> Datetime(<<>>)]

\* datetime.fromisoformat(value.replace("Z", "+00:00")): only a str has .replace.
ParseHireDatetime(value) ==
    IF value.t # "str"
    THEN [raised |-> "AttributeError", value |-> Datetime(<<>>)]
    ELSE fromisoformat(str_replace(value.s, "Z", "+00:00"))

\* ------------------------------------------------------------------ schema

TABLE_SCHEMAS ==
    [departments |-> <<"department">>,
     jobs |-> <<"job">>,
     hired_employees |-> <<"name", "hire_datetime", "department_id", "job_id">>]

TableNames == DOMAIN TABLE_SCHEMAS

\* Faulty variant: any() where the code says all().
HasAnyRequiredField(record, required_fields) ==
    \E f \in Range(required_fields) : f \in DOMAIN record

\* all(field in record for field in required_fields)
HasRequiredFields(record, required_fields) ==
    \A f \in Range(required_fields) : f \in DOMAIN record

\* ------------------------------------------------------------------ inputs

TsZ == Str(<<"2021-05-15T14:30:00", "Z">>)
TsOffset == Str(<<"2021-05-15T14:30:00", "+00:00">>)
TsBad == Str(<<"not-a-date">>)
TsNumber == Num(20210515)

Hire(ts, dep, job) ==
    [name |-> Str(<<"A">>), hire_datetime |-> ts,
     department_id |-> Num(dep), job_id |-> Num(job)]

\* The records a caller sends: any record may be sent to any table.
RawRecords ==
    { [department |-> Str(<<"Eng">>), id |-> Num(9)],
      [job |-> Str(<<"Dev">>)],
      Hire(TsZ, 1, 1),
      Hire(TsZ, 2, 1),
      Hire(TsOffset, 1, 2),
      Hire(TsBad, 2, 1),
      Hire(TsNumber, 1, 1),
      [name |-> Str(<<"A">>), hire_datetime |-> TsZ, department_id |-> Num(1)] }

Batches == UNION { [1..n -> RawRecords] : n \in 0..MaxBatch }

Requests == [table : TableNames \cup {"unknown_table"}, data : Batches]

\* ------------------------------------------------------------------ store

Row(id, cols) == [id |-> id, cols |-> cols]

NamedRows(field, name, ids) == [k \in 1..ids |-> Row(k, field :> Str(<<name>>))]

\* The stores a call can find: one or two departments, one or two jobs, one hire.
InitialStores ==
    { [departments |-> NamedRows("department", "Eng", d),
       jobs |-> NamedRows("job", "Dev", b),
       hired_employees |->
           <<Row(1, [name |-> Str(<<"Z">>),
                     hire_datetime |-> Datetime(<<"2021-05-15T14:30:00", "+00:00">>),
                     department_id |-> Num(1), job_id |-> Num(1)])>>]
      : d \in {1, 2}, b \in {1, 2} }

\* What a statement of the open transaction sees of a table.
Visible(table) ==
    IF txn = "open" /\ table = request.table
    THEN committed[table] \o pending
    ELSE committed[table]

\* SELECT COUNT(*) FROM <table> WHERE id = $1
CountById(table, value) ==
    Cardinality({k \in DOMAIN Visible(table) : Visible(table)[k].id = value.n})

\* How db.fetchval can end for the parameter: it returns (TRUE) or raises (FALSE);
\* a parameter that is no integer is refused.
QueryOutcomes(value) == IF value.t = "int" THEN BOOLEAN ELSE {FALSE}

LogEntry(op, table, rec, ok, result) ==
    [op |-> op, table |-> table, rec |-> rec, ok |-> ok, result |-> result]

\* ------------------------------------------------------------------ the call

NoExc == [type |-> "none", origin |-> "none", status |-> 0]
Raised(type, origin, status) == [type |-> type, origin |-> origin, status |-> status]

NoResponse ==
    [kind |-> "none", status |-> 0, success |-> FALSE, message |-> "",
     failed_records |-> <<>>, detail |-> ""]

\* No call came before this one; no other call and no restore are running.
NotResubmitted == [done |-> FALSE]
NoOtherCall == [pc |-> "idle"]
NoRestore == [pc |-> "idle"]

Init ==
    /\ pc = "get_db"
    /\ conn = "none"
    /\ txn = "none"
    /\ committed \in InitialStores
    /\ pending = <<>>
    /\ nextId = [t \in TableNames |-> Len(committed[t]) + 1]
    /\ request \in Requests
    /\ records = request.data
    /\ i = 1
    /\ valid_records = <<>>
    /\ failed_records = <<>>
    /\ dep_exists = 0
    /\ j = 1
    /\ exc = NoExc
    /\ response = NoResponse
    /\ before = committed
    /\ log = <<>>
    /\ first = NotResubmitted
    /\ other = NoOtherCall
    /\ restore = NoRestore

\* get_db up to its yield: the connection of the call.
GetDb ==
    /\ pc = "get_db"
    /\ conn' = "open"
    /\ pc' = "check_table"
    /\ UNCHANGED <<first, other, restore>>
    /\ UNCHANGED <<txn, committed, pending, nextId, request, records, i, valid_records,
                   failed_records, dep_exists, j, exc, response, before, log>>

\* if request.table not in TABLE_SCHEMAS: raise HTTPException(400), inside the try.
CheckTable ==
    /\ pc = "check_table"
    /\ IF request.table \notin TableNames
       THEN /\ exc' = Raised("HTTPException", "table", 400)
            /\ pc' = "except"
       ELSE /\ exc' = exc
            /\ pc' = "begin"
    /\ UNCHANGED <<first, other, restore>>
    /\ UNCHANGED <<conn, txn, committed, pending, nextId, request, records, i,
                   valid_records, failed_records, dep_exists, j, response, before, log>>

\* async with db.transaction(): entering the block.
BeginTransaction ==
    /\ pc = "begin"
    /\ \E ok \in BOOLEAN :
          /\ log' = Append(log, LogEntry("begin", request.table, 0, ok, 0))
          /\ IF ok
             THEN /\ txn' = "open"
                  /\ exc' = exc
                  /\ pc' = "loop"
             ELSE /\ txn' = txn
                  /\ exc' = Raised("StoreError", "begin", 0)
                  /\ pc' = "except"
    /\ UNCHANGED <<first, other, restore>>
    /\ UNCHANGED <<conn, committed, pending, nextId, request, records, i, valid_records,
                   failed_records, dep_exists, j, response, before>>

\* record[field], or KeyError.
Lookup(record, field) ==
    IF field \in DOMAIN record
    THEN [raised |-> "none", value |-> record[field]]
    ELSE [raised |-> "KeyError", value |-> Num(0)]

\* Faulty variant: `and` where the code says `or`.
BothReferencesMissing(dep, job) == dep = 0 /\ job = 0

\* Faulty variant: the count of the department is not looked at.
OnlyJobMissing(dep, job) == job = 0

\* if dep_exists == 0 or job_exists == 0
ReferenceMissing(dep, job) == dep = 0 \/ job = 0

\* The leading part of `for record in request.data`: the required fields, the
\* timestamp of a hire; a record of another table is valid at once.
ValidateRecord ==
    /\ pc = "loop"
    /\ i <= Len(records)
    /\ LET record == records[i]
           required_fields == TABLE_SCHEMAS[request.table]
           parsed == IF "hire_datetime" \in DOMAIN record
                     THEN ParseHireDatetime(record["hire_datetime"])
                     ELSE [raised |-> "KeyError", value |-> Datetime(<<>>)]
       IN  IF ~HasRequiredFields(record, required_fields)
           THEN /\ failed_records' = Append(failed_records, i)
                /\ i' = i + 1
                /\ pc' = "loop"
                /\ UNCHANGED <<records, valid_records, exc>>
           ELSE IF request.table # "hired_employees"
           THEN /\ valid_records' = Append(valid_records, i)
                /\ i' = i + 1
                /\ pc' = "loop"
                /\ UNCHANGED <<records, failed_records, exc>>
           ELSE IF parsed.raised = "ValueError"
           THEN /\ failed_records' = Append(failed_records, i)
                /\ i' = i + 1
                /\ pc' = "loop"
                /\ UNCHANGED <<records, valid_records, exc>>
           ELSE IF parsed.raised # "none"
           THEN /\ exc' = Raised(parsed.raised, "parse", 0)
                /\ pc' = "rollback"
                /\ UNCHANGED <<records, i, valid_records, failed_records>>
           ELSE /\ records' = [records EXCEPT
                                  ![i] = [record EXCEPT !["hire_datetime"] = parsed.value]]
                /\ pc' = "dep"
                /\ UNCHANGED <<i, valid_records, failed_records, exc>>
    /\ UNCHANGED <<first, other, restore>>
    /\ UNCHANGED <<conn, txn, committed, pending, nextId, request, dep_exists, j,
                   response, before, log>>

\* Faulty variant: a failure of the store during the check is taken for "no such row".
CheckDepartmentFailureIsMissing ==
    /\ pc = "dep"
    /\ \E ok \in BOOLEAN :
          LET count == CountById("departments", records[i]["department_id"])
          IN  /\ log' = Append(log, LogEntry("select", "departments", i, ok,
                                             IF ok THEN count ELSE 0))
              /\ dep_exists' = IF ok THEN count ELSE 0
              /\ pc' = "job"
    /\ UNCHANGED <<first, other, restore>>
    /\ UNCHANGED <<conn, txn, committed, pending, nextId, request, records, i,
                   valid_records, failed_records, j, exc, response, before>>

\* dep_exists = await db.fetchval("SELECT COUNT(*) FROM departments WHERE id = $1", ...)
CheckDepartment ==
    /\ pc = "dep"
    /\ LET arg == Lookup(records[i], "department_id")
       IN  IF arg.raised # "none"
           THEN /\ exc' = Raised(arg.raised, "dep", 0)
                /\ pc' = "rollback"
                /\ UNCHANGED <<dep_exists, log>>
           ELSE \E ok \in QueryOutcomes(arg.value) :
                   LET count == CountById("departments", arg.value)
                   IN  /\ log' = Append(log, LogEntry("select", "departments", i, ok,
                                                      IF ok THEN count ELSE 0))
                       /\ IF ok
                          THEN /\ dep_exists' = count
                               /\ exc' = exc
                               /\ pc' = "job"
                          ELSE /\ dep_exists' = dep_exists
                               /\ exc' = Raised("StoreError", "dep", 0)
                               /\ pc' = "rollback"
    /\ UNCHANGED <<first, other, restore>>
    /\ UNCHANGED <<conn, txn, committed, pending, nextId, request, records, i,
                   valid_records, failed_records, j, response, before>>

\* Faulty variant: the `continue` after failed_records.append(record) is missing.
CheckJobWithoutContinue ==
    /\ pc = "job"
    /\ \E ok \in BOOLEAN :
          LET job_exists == CountById("jobs", records[i]["job_id"])
          IN  /\ log' = Append(log, LogEntry("select", "jobs", i, ok,
                                             IF ok THEN job_exists ELSE 0))
              /\ IF ~ok
                 THEN /\ exc' = Raised("StoreError", "job", 0)
                      /\ pc' = "rollback"
                      /\ UNCHANGED <<i, valid_records, failed_records>>
                 ELSE /\ failed_records' =
                             IF ReferenceMissing(dep_exists, job_exists)
                             THEN Append(failed_records, i) ELSE failed_records
                      /\ valid_records' = Append(valid_records, i)
                      /\ i' = i + 1
                      /\ exc' = exc
                      /\ pc' = "loop"
    /\ UNCHANGED <<first, other, restore>>
    /\ UNCHANGED <<conn, txn, committed, pending, nextId, request, records, dep_exists,
                   j, response, before>>

\* job_exists = await db.fetchval("SELECT COUNT(*) FROM jobs WHERE id = $1", ...),
\* then the record goes to failed_records or to valid_records.
CheckJob ==
    /\ pc = "job"
    /\ LET arg == Lookup(records[i], "job_id")
       IN  IF arg.raised # "none"
           THEN /\ exc' = Raised(arg.raised, "job", 0)
                /\ pc' = "rollback"
                /\ UNCHANGED <<i, valid_records, failed_records, log>>
           ELSE \E ok \in QueryOutcomes(arg.value) :
                   LET job_exists == CountById("jobs", arg.value)
                   IN  /\ log' = Append(log, LogEntry("select", "jobs", i, ok,
                                                      IF ok THEN job_exists ELSE 0))
                       /\ IF ~ok
                          THEN /\ exc' = Raised("StoreError", "job", 0)
                               /\ pc' = "rollback"
                               /\ UNCHANGED <<i, valid_records, failed_records>>
                          ELSE /\ IF ReferenceMissing(dep_exists, job_exists)
                                  THEN /\ failed_records' = Append(failed_records, i)
                                       /\ valid_records' = valid_records
                                  ELSE /\ valid_records' = Append(valid_records, i)
                                       /\ failed_records' = failed_records
                               /\ i' = i + 1
                               /\ exc' = exc
                               /\ pc' = "loop"
    /\ UNCHANGED <<first, other, restore>>
    /\ UNCHANGED <<conn, txn, committed, pending, nextId, request, records, dep_exists,
                   j, response, before>>

\* The end of `for record in request.data`, and `if valid_records:`.
EndOfData ==
    /\ pc = "loop"
    /\ i > Len(records)
    /\ pc' = IF valid_records # <<>> THEN "insert" ELSE "commit"
    /\ UNCHANGED <<first, other, restore>>
    /\ UNCHANGED <<conn, txn, committed, pending, nextId, request, records, i,
                   valid_records, failed_records, dep_exists, j, exc, response, before, log>>

\* Faulty variant: every field of the record is inserted.
InsertedAllFields(record, required_fields) == record

\* tuple(record[field] for field in required_fields), under the columns of the schema.
InsertedColumns(record, required_fields) ==
    [f \in Range(required_fields) |-> record[f]]

\* Faulty variant: a record whose values are already in the table is not
\* inserted again (INSERT ... ON CONFLICT DO NOTHING on the values).
InsertRecordIfAbsent ==
    /\ pc = "insert"
    /\ j <= Len(valid_records)
    /\ LET record == records[valid_records[j]]
           required_fields == TABLE_SCHEMAS[request.table]
           inserted_id == nextId[request.table]
           cols == [f \in Range(required_fields) |-> record[f]]
           known == \E r \in DOMAIN committed[request.table] :
                        committed[request.table][r].cols = cols
       IN  \E ok \in BOOLEAN :
              /\ log' = Append(log, LogEntry("insert", request.table, valid_records[j],
                                             ok, IF ok THEN inserted_id ELSE 0))
              /\ IF ok
                 THEN /\ pending' = IF known THEN pending
                                     ELSE Append(pending, Row(inserted_id, cols))
                      /\ nextId' = [nextId EXCEPT ![request.table] = @ + 1]
                      /\ j' = j + 1
                      /\ exc' = exc
                      /\ pc' = IF j = Len(valid_records) THEN "commit" ELSE "insert"
                 ELSE /\ exc' = Raised("StoreError", "insert", 0)
                      /\ pc' = "rollback"
                      /\ UNCHANGED <<pending, nextId, j>>
    /\ UNCHANGED <<first, other, restore>>
    /\ UNCHANGED <<conn, txn, committed, request, records, i, valid_records,
                   failed_records, dep_exists, response, before>>

\* One turn of `for record in valid_records`: INSERT ... RETURNING id.
InsertRecord ==
    /\ pc = "insert"
    /\ j <= Len(valid_records)
    /\ LET record == records[valid_records[j]]
           required_fields == TABLE_SCHEMAS[request.table]
           inserted_id == nextId[request.table]
       IN  IF \E f \in Range(required_fields) : Lookup(record, f).raised # "none"
           THEN /\ exc' = Raised("KeyError", "insert", 0)
                /\ pc' = "rollback"
                /\ UNCHANGED <<pending, nextId, j, log>>
           ELSE \E ok \in BOOLEAN :
                   /\ log' = Append(log, LogEntry("insert", request.table, valid_records[j],
                                                  ok, IF ok THEN inserted_id ELSE 0))
                   /\ IF ok
                      THEN /\ pending' = Append(pending,
                                  Row(inserted_id, InsertedColumns(record, required_fields)))
                           /\ nextId' = [nextId EXCEPT ![request.table] = @ + 1]
                           /\ j' = j + 1
                           /\ exc' = exc
                           /\ pc' = IF j = Len(valid_records) THEN "commit" ELSE "insert"
                      ELSE /\ exc' = Raised("StoreError", "insert", 0)
                           /\ pc' = "rollback"
                           /\ UNCHANGED <<pending, nextId, j>>
    /\ UNCHANGED <<first, other, restore>>
    /\ UNCHANGED <<conn, txn, committed, request, records, i, valid_records,
                   failed_records, dep_exists, response, before>>

\* Leaving `async with db.transaction()` without an exception: COMMIT.
CommitTransaction ==
    /\ pc = "commit"
    /\ \E ok \in BOOLEAN :
          /\ log' = Append(log, LogEntry("commit", request.table, 0, ok, 0))
          /\ pending' = <<>>
          /\ IF ok
             THEN /\ committed' = [committed EXCEPT ![request.table] = @ \o pending]
                  /\ txn' = "committed"
                  /\ exc' = exc
                  /\ pc' = "return"
             ELSE /\ committed' = committed
                  /\ txn' = "rolledback"
                  /\ exc' = Raised("StoreError", "commit", 0)
                  /\ pc' = "except"
    /\ UNCHANGED <<first, other, restore>>
    /\ UNCHANGED <<conn, nextId, request, records, i, valid_records, failed_records,
                   dep_exists, j, response, before>>

\* Faulty variant: the inserts are not in a transaction, the rows written before the
\* exception stay.
RollbackKeepsRows ==
    /\ pc = "rollback"
    /\ log' = Append(log, LogEntry("rollback", request.table, 0, TRUE, 0))
    /\ committed' = [committed EXCEPT ![request.table] = @ \o pending]
    /\ pending' = <<>>
    /\ txn' = "rolledback"
    /\ pc' = "except"
    /\ UNCHANGED <<first, other, restore>>
    /\ UNCHANGED <<conn, nextId, request, records, i, valid_records,
                   failed_records, dep_exists, j, exc, response, before>>

\* Leaving `async with db.transaction()` with an exception: ROLLBACK, and the
\* exception goes on.
RollbackTransaction ==
    /\ pc = "rollback"
    /\ log' = Append(log, LogEntry("rollback", request.table, 0, TRUE, 0))
    /\ pending' = <<>>
    /\ txn' = "rolledback"
    /\ pc' = "except"
    /\ UNCHANGED <<first, other, restore>>
    /\ UNCHANGED <<conn, committed, nextId, request, records, i, valid_records,
                   failed_records, dep_exists, j, exc, response, before>>

\* The list a list of references stands for.
Deref(refs) == [k \in DOMAIN refs |-> records[refs[k]]]

\* f"{len(valid_records)} records inserted into {request.table}"
Message(valid, table) == ToString(Len(valid)) \o " records inserted into " \o table

\* Faulty variant: success does not look at valid_records.
OutcomeAlwaysSuccess(valid, failed, table) ==
    [kind |-> "outcome", status |-> 200,
     success |-> TRUE,
     message |-> Message(valid, table),
     failed_records |-> Deref(failed),
     detail |-> ""]

\* The dict the handler returns.
Outcome(valid, failed, table) ==
    [kind |-> "outcome", status |-> 200,
     success |-> IF valid # <<>> THEN TRUE ELSE FALSE,
     message |-> Message(valid, table),
     failed_records |-> Deref(failed),
     detail |-> ""]

ReturnOutcome ==
    /\ pc = "return"
    /\ response' = Outcome(valid_records, failed_records, request.table)
    /\ pc' = "close"
    /\ UNCHANGED <<first, other, restore>>
    /\ UNCHANGED <<conn, txn, committed, pending, nextId, request, records, i,
                   valid_records, failed_records, dep_exists, j, exc, before, log>>

\* str(e)
ExcStr(e) ==
    IF e.type = "HTTPException"
    THEN ToString(e.status) \o ": Invalid table name"
    ELSE e.type

\* Faulty variant: get_db without its try/finally, the exception thrown into the
\* generator skips conn.close().
ExceptWithoutClose ==
    /\ pc = "except"
    /\ response' = [kind |-> "error", status |-> 500, success |-> FALSE, message |-> "",
                    failed_records |-> <<>>,
                    detail |-> "Internal Server Error: " \o ExcStr(exc)]
    /\ pc' = "done"
    /\ UNCHANGED <<first, other, restore>>
    /\ UNCHANGED <<conn, txn, committed, pending, nextId, request, records, i,
                   valid_records, failed_records, dep_exists, j, exc, before, log>>

\* except Exception as e: raise HTTPException(status_code=500, detail=error_message)
ExceptException ==
    /\ pc = "except"
    /\ response' = [kind |-> "error", status |-> 500, success |-> FALSE, message |-> "",
                    failed_records |-> <<>>,
                    detail |-> "Internal Server Error: " \o ExcStr(exc)]
    /\ pc' = "close"
    /\ UNCHANGED <<first, other, restore>>
    /\ UNCHANGED <<conn, txn, committed, pending, nextId, request, records, i,
                   valid_records, failed_records, dep_exists, j, exc, before, log>>

\* get_db after its yield: finally: await conn.close()
CloseDb ==
    /\ pc = "close"
    /\ conn' = "closed"
    /\ pc' = "done"
    /\ UNCHANGED <<first, other, restore>>
    /\ UNCHANGED <<txn, committed, pending, nextId, request, records, i, valid_records,
                   failed_records, dep_exists, j, exc, response, before, log>>

Next ==
    \/ GetDb
    \/ CheckTable
    \/ BeginTransaction
    \/ ValidateRecord
    \/ CheckDepartment
    \/ CheckJob
    \/ EndOfData
    \/ InsertRecord
    \/ CommitTransaction
    \/ RollbackTransaction
    \/ ReturnOutcome
    \/ ExceptException
    \/ CloseDb

Spec == Init /\ [][Next]_vars

\* ------------------------------------------------------------------ properties

Schema == TABLE_SCHEMAS[request.table]

Inputs == DOMAIN request.data

\* The loop over request.data has classified every record.
Classified ==
    /\ request.table \in TableNames
    /\ txn # "none"
    /\ i > Len(request.data)

Increasing(refs) == \A a, b \in DOMAIN refs : a < b => refs[a] < refs[b]

Entries(op) == {e \in DOMAIN log : log[e].op = op}

EntriesOf(op, k) == {e \in Entries(op) : log[e].rec = k}

\* Record k of the input lacks a required field of the table.
LacksField(k) ==
    /\ request.table \in TableNames
    /\ \E f \in Range(Schema) : f \notin DOMAIN request.data[k]

\* Record k of the input is a complete hire record.
CompleteHire(k) ==
    /\ request.table = "hired_employees"
    /\ \A f \in Range(Schema) : f \in DOMAIN request.data[k]

\* A timestamp as the caller can send it that is an ISO-8601 instant.
IsIsoInstant(value) == value \in {TsZ, TsOffset}

\* C1: once an insert of the call has failed, the store holds none of the rows of
\* the call: the store is what it was before the call, the inserts that succeeded
\* before the failing one are rolled back with it.
C1_Atomicity ==
    (\E e \in Entries("insert") : ~log[e].ok) =>
        /\ committed = before
        /\ pc \in {"except", "close", "done"} => pending = <<>> /\ txn = "rolledback"

\* An insert failed after another one of the same call had succeeded.
C1_Witness ==
    /\ pc = "done"
    /\ \E e, f \in Entries("insert") : e < f /\ log[e].ok /\ ~log[f].ok

\* C2: when the records of a recognized table are classified, each is in exactly
\* one of valid_records and failed_records, the lengths add up to the length of the
\* input, and each list is in the order of the input.
C2_Partition ==
    Classified =>
        /\ Len(valid_records) + Len(failed_records) = Len(request.data)
        /\ Range(valid_records) \cup Range(failed_records) = Inputs
        /\ Range(valid_records) \cap Range(failed_records) = {}
        /\ Increasing(valid_records)
        /\ Increasing(failed_records)
        /\ response.kind = "outcome" =>
               Len(response.failed_records) = Len(failed_records)

\* A batch of three with records in both lists has been answered.
C2_Witness ==
    /\ response.kind = "outcome"
    /\ Len(request.data) = 3
    /\ valid_records # <<>>
    /\ Len(failed_records) = 2

\* C3: an unknown table name is answered with the client error 400, not with the
\* server error 500, and no transaction is opened nor any statement issued for it.
C3_UnknownEntityIsClientError ==
    request.table \notin TableNames =>
        /\ log = <<>>
        /\ txn = "none"
        /\ pc = "done" => response.kind = "error" /\ response.status = 400

\* C4: a record that lacks a required field is never in valid_records, no
\* statement is issued for it, it is not modified, and once the loop has passed it
\* it is in failed_records as it was sent.
C4_MissingFieldRejected ==
    \A k \in Inputs :
        LacksField(k) =>
            /\ k \notin Range(valid_records)
            /\ EntriesOf("select", k) = {}
            /\ EntriesOf("insert", k) = {}
            /\ records[k] = request.data[k]
            /\ (txn # "none" /\ k < i) => k \in Range(failed_records)
            /\ response.kind = "outcome" =>
                   \E m \in DOMAIN failed_records :
                       /\ failed_records[m] = k
                       /\ response.failed_records[m] = request.data[k]

\* A hire record without job_id was returned among the failed records, with
\* another record inserted.
C4_Witness ==
    /\ response.kind = "outcome"
    /\ request.table = "hired_employees"
    /\ valid_records # <<>>
    /\ \E k \in Inputs :
           /\ LacksField(k)
           /\ "hire_datetime" \in DOMAIN request.data[k]
           /\ k \in Range(failed_records)

\* C5: every record of the failure list of an outcome is the record as the caller
\* sent it; the hire_datetime of a rejected hire record is still the string sent.
C5_RejectedIsOriginal ==
    response.kind = "outcome" =>
        \A m \in DOMAIN failed_records :
            response.failed_records[m] = request.data[failed_records[m]]

\* C6: a complete hire record whose hire_datetime is not an ISO-8601 instant,
\* whatever the value, is put in failed_records when the loop reaches it, and the
\* call is not aborted by it.
C6_UnparseableRejected ==
    \A k \in Inputs :
        (CompleteHire(k) /\ ~IsIsoInstant(request.data[k]["hire_datetime"])) =>
            /\ (txn # "none" /\ k < i) => k \in Range(failed_records)
            /\ ~(exc.origin = "parse" /\ i = k)

\* The rows of a table of the store before the call whose id is the value.
RowsBefore(table, value) ==
    {r \in DOMAIN before[table] : value.t = "int" /\ before[table][r].id = value.n}

\* What the existence checks of record k returned.
Counted(k, table) == {log[e].result : e \in {x \in EntriesOf("select", k) :
                                                log[x].table = table /\ log[x].ok}}

\* Record k of the input is a complete hire record with a parseable timestamp.
ParseableHire(k) ==
    /\ CompleteHire(k)
    /\ IsIsoInstant(request.data[k]["hire_datetime"])

\* C7: a complete hire record with a parseable timestamp is in failed_records
\* exactly when one of its two existence checks counted zero rows, the counts being
\* those of the store at the check; no insert is issued for a rejected record, and
\* the records of the batch that are not rejected are inserted and committed.
C7_RejectedIffReferenceMissing ==
    Classified =>
        \A k \in Inputs :
            ParseableHire(k) =>
                /\ Counted(k, "departments") =
                       {Cardinality(RowsBefore("departments", request.data[k]["department_id"]))}
                /\ Counted(k, "jobs") =
                       {Cardinality(RowsBefore("jobs", request.data[k]["job_id"]))}
                /\ k \in Range(failed_records) <=>
                       (0 \in Counted(k, "departments") \/ 0 \in Counted(k, "jobs"))
                /\ k \in Range(failed_records) => EntriesOf("insert", k) = {}
                /\ (response.kind = "outcome" /\ k \notin Range(failed_records)) =>
                       \E e \in EntriesOf("insert", k) :
                           /\ log[e].ok
                           /\ \E r \in DOMAIN committed["hired_employees"] :
                                  committed["hired_employees"][r].id = log[e].result

\* A batch was answered in which one hire was rejected for its department alone,
\* one for its job alone, and a third was inserted.
C7_Witness ==
    /\ response.kind = "outcome"
    /\ \E a, b, c \in Inputs :
           /\ ParseableHire(a) /\ ParseableHire(b) /\ ParseableHire(c)
           /\ Counted(a, "departments") = {0} /\ Counted(a, "jobs") = {1}
           /\ Counted(b, "departments") = {1} /\ Counted(b, "jobs") = {0}
           /\ a \in Range(failed_records) /\ b \in Range(failed_records)
           /\ c \in Range(valid_records)

\* C8: while valid_records is empty no insert is issued, and an outcome built from
\* an empty valid_records has success = false; success is true exactly when an
\* outcome was returned and valid_records is not empty.
C8_EmptyValidNoCommit ==
    /\ valid_records = <<>> => Entries("insert") = {}
    /\ (response.kind = "outcome" /\ valid_records = <<>>) => response.success = FALSE
    /\ pc \in {"close", "done"} =>
           (response.success = TRUE <=>
               (response.kind = "outcome" /\ valid_records # <<>>))

\* An outcome was returned for an empty batch, and one for a batch of rejected
\* records only.
C8_Witness ==
    /\ pc = "done"
    /\ response.kind = "outcome"
    /\ valid_records = <<>>
    /\ Len(request.data) \in {0, 2}
    /\ Len(failed_records) = Len(request.data)

\* C9: once an existence check has failed in the store, nothing of the call is in
\* the store, the record checked is not in failed_records, no outcome is returned,
\* and the call ends with the server error 500.
C9_CheckFailureIsFatal ==
    \A e \in Entries("select") :
        ~log[e].ok =>
            /\ committed = before
            /\ log[e].rec \notin Range(failed_records)
            /\ log[e].rec \notin Range(valid_records)
            /\ response.kind # "outcome"
            /\ pc \in {"except", "close", "done"} => txn = "rolledback" /\ pending = <<>>
            /\ pc \in {"close", "done"} => response.kind = "error" /\ response.status = 500

\* The check of the department of the second record failed, after the first
\* record had been found valid, and the call has ended.
C9_Witness ==
    /\ pc = "done"
    /\ valid_records = <<1>>
    /\ \E e \in Entries("select") :
           ~log[e].ok /\ log[e].rec = 2 /\ log[e].table = "departments"

IdsOf(rows) == {rows[r].id : r \in DOMAIN rows}

\* The value the store holds for field f of an input record.
StoredValue(table, record, f) ==
    IF table = "hired_employees" /\ f = "hire_datetime"
    THEN Datetime(<<record[f].s[1], "+00:00">>)
    ELSE record[f]

\* C10: when an outcome is returned the transaction is committed, the target table
\* is what it was followed by one row for each record of valid_records, in order,
\* with the required fields only and an id assigned by the store, the other tables
\* are unchanged, and the message is "<len(valid_records)> records inserted into
\* <table>".
C10_OutcomeMeansCommitted ==
    response.kind = "outcome" =>
        LET table == request.table
            old == Len(before[table])
            rows == committed[table]
        IN  /\ txn = "committed"
            /\ \E e \in Entries("commit") : log[e].ok
            /\ pending = <<>>
            /\ \A t \in TableNames \ {table} : committed[t] = before[t]
            /\ Len(rows) = old + Len(valid_records)
            /\ SubSeq(rows, 1, old) = before[table]
            /\ \A k \in DOMAIN valid_records :
                   LET row == rows[old + k]
                       sent == request.data[valid_records[k]]
                   IN  /\ DOMAIN row.cols = Range(Schema)
                       /\ \A f \in Range(Schema) :
                              row.cols[f] = StoredValue(table, sent, f)
                       /\ row.id \notin IdsOf(before[table])
                       /\ \E e \in EntriesOf("insert", valid_records[k]) :
                              log[e].ok /\ log[e].result = row.id
            /\ Cardinality(IdsOf(rows)) = Len(rows)
            /\ response.message =
                   ToString(Len(valid_records)) \o " records inserted into " \o table

\* Two departments sent with an id of their own were inserted next to a rejected
\* record, and the call reported them.
C10_Witness ==
    /\ pc = "done"
    /\ response.kind = "outcome"
    /\ request.table = "departments"
    /\ Len(valid_records) = 2
    /\ Len(failed_records) = 1
    /\ response.message = "2 records inserted into departments"
    /\ \A k \in Range(valid_records) : "id" \in DOMAIN request.data[k]

\* ------------------------------------------------------------------ resubmission

\* Longest input batch of the specifications that follow more than one call.
MaxShortBatch == 2

ShortInit ==
    /\ Init
    /\ Len(request.data) <= MaxShortBatch

\* The caller sends the same request once more after the answer to the first:
\* the handler runs again, on a new connection, on the same store.
Resubmit ==
    /\ pc = "done"
    /\ ~first.done
    /\ first' = [done |-> TRUE, before |-> before, after |-> committed,
                 response |-> response, valid_records |-> valid_records]
    /\ pc' = "get_db"
    /\ conn' = "none"
    /\ txn' = "none"
    /\ pending' = <<>>
    /\ records' = request.data
    /\ i' = 1
    /\ valid_records' = <<>>
    /\ failed_records' = <<>>
    /\ dep_exists' = 0
    /\ j' = 1
    /\ exc' = NoExc
    /\ response' = NoResponse
    /\ before' = committed
    /\ log' = <<>>
    /\ UNCHANGED <<committed, nextId, request, other, restore>>

NextTwice ==
    \/ Next
    \/ Resubmit

SpecTwice == ShortInit /\ [][NextTwice]_vars

\* The rows a call added to a table: those after the rows that were there.
Added(old, new) == SubSeq(new, Len(old) + 1, Len(new))

\* Both calls of a resubmitted request returned an outcome.
BothCompleted ==
    /\ first.done
    /\ first.response.kind = "outcome"
    /\ response.kind = "outcome"

\* C11: when the same batch is submitted twice and both calls return an outcome,
\* the target table holds the rows of the first call and, after them, as many rows
\* of the second call with the same column values: nothing is deduplicated, and
\* the identifiers of all these rows are pairwise distinct.
C11_NotIdempotent ==
    BothCompleted =>
        LET table == request.table
            rows1 == Added(first.before[table], first.after[table])
            rows2 == Added(before[table], committed[table])
        IN  /\ before = first.after
            /\ committed[table] = first.before[table] \o rows1 \o rows2
            /\ Len(rows1) = Len(first.valid_records)
            /\ Len(rows2) = Len(valid_records)
            /\ Len(rows2) = Len(rows1)
            /\ \A k \in DOMAIN rows1 : rows2[k].cols = rows1[k].cols
            /\ IdsOf(rows1) \cap IdsOf(rows2) = {}
            /\ Cardinality(IdsOf(rows1) \cup IdsOf(rows2)) = 2 * Len(rows1)
            /\ valid_records # <<>> => committed[table] # first.after[table]

\* A batch of two valid records was submitted twice and answered twice.
C11_Witness ==
    /\ pc = "done"
    /\ BothCompleted
    /\ Len(valid_records) = 2
    /\ Len(committed[request.table]) = Len(first.before[request.table]) + 4

\* ------------------------------------------------------------------ release

\* The event loop runs the handler and the dependency to their end: every await
\* on the store returns or raises.
SpecFair == ShortInit /\ [][Next]_vars /\ WF_vars(Next)

\* The transaction of the call is over: none is open, nothing is pending; one that
\* was begun is committed or rolled back, and committed exactly on the path that
\* returns an outcome.
TransactionSettled ==
    /\ txn \in {"none", "committed", "rolledback"}
    /\ pending = <<>>
    /\ (\E e \in Entries("begin") : log[e].ok) <=> txn \in {"committed", "rolledback"}
    /\ txn = "committed" <=> response.kind = "outcome"

\* C12: every call comes to its end, on every path (outcome, unknown table, failed
\* check, failed insert); at the end the connection of the call is closed and its
\* transaction is settled.
C12_ConnectionReleased ==
    /\ <>(pc = "done")
    /\ [](pc = "done" => (conn = "closed" /\ TransactionSettled))
    /\ [](conn = "closed" => pc = "done")

\* A call whose second insert failed has ended: the connection is closed, the
\* transaction rolled back.
C12_Witness ==
    /\ pc = "done"
    /\ conn = "closed"
    /\ txn = "rolledback"
    /\ exc.origin = "insert"
    /\ j = 2

\* ------------------------------------------------------------------ concurrent calls

\* The requests of the second call: one department, or one job.
OtherRequests ==
    { [table |-> "departments", data |-> <<[department |-> Str(<<"Ops">>)]>>],
      [table |-> "jobs", data |-> <<[job |-> Str(<<"Ops">>)]>>] }

mainVars == <<pc, conn, txn, pending, request, records, i, valid_records,
              failed_records, dep_exists, j, exc, response, before, log, first, restore>>

\* A second request arrives while the first is served; its record has the field of
\* its table, so it is valid and the call goes to its transaction.
OtherArrives ==
    /\ other.pc = "idle"
    /\ pc # "done"
    /\ \E r \in OtherRequests :
          /\ HasRequiredFields(r.data[1], TABLE_SCHEMAS[r.table])
          /\ other' = [pc |-> "begin", request |-> r, pending |-> <<>>]
    /\ UNCHANGED <<mainVars, committed, nextId>>

\* async with db.transaction(), in the second call.
OtherBegin ==
    /\ other.pc = "begin"
    /\ \E ok \in BOOLEAN :
          other' = [other EXCEPT !.pc = IF ok THEN "insert" ELSE "done"]
    /\ UNCHANGED <<mainVars, committed, nextId>>

\* INSERT ... RETURNING id, in the second call.
OtherInsert ==
    /\ other.pc = "insert"
    /\ LET table == other.request.table
           record == other.request.data[1]
       IN  \E ok \in BOOLEAN :
              IF ok
              THEN /\ other' = [other EXCEPT
                          !.pc = "commit",
                          !.pending = <<Row(nextId[table],
                                            InsertedColumns(record, TABLE_SCHEMAS[table]))>>]
                   /\ nextId' = [nextId EXCEPT ![table] = @ + 1]
              ELSE /\ other' = [other EXCEPT !.pc = "rollback"]
                   /\ nextId' = nextId
    /\ UNCHANGED <<mainVars, committed>>

\* The second call leaves its transaction block without an exception: COMMIT.
OtherCommit ==
    /\ other.pc = "commit"
    /\ \E ok \in BOOLEAN :
          /\ other' = [other EXCEPT !.pc = "done", !.pending = <<>>]
          /\ committed' = IF ok
                          THEN [committed EXCEPT ![other.request.table] = @ \o other.pending]
                          ELSE committed
    /\ UNCHANGED <<mainVars, nextId>>

\* The second call leaves its transaction block with an exception: ROLLBACK.
OtherRollback ==
    /\ other.pc = "rollback"
    /\ other' = [other EXCEPT !.pc = "done", !.pending = <<>>]
    /\ UNCHANGED <<mainVars, committed, nextId>>

ConcurrentInit ==
    /\ ShortInit
    /\ request.table = "hired_employees"

NextConcurrent ==
    \/ Next
    \/ OtherArrives
    \/ OtherBegin
    \/ OtherInsert
    \/ OtherCommit
    \/ OtherRollback

SpecConcurrent == ConcurrentInit /\ [][NextConcurrent]_vars

\* The committed rows of a table with the identifier.
CommittedWithId(table, value) ==
    {r \in DOMAIN committed[table] : value.t = "int" /\ committed[table][r].id = value.n}

\* C13: whatever the interleaving of two ingest calls, each in a transaction of its
\* own, every committed hire row references a committed department row and a
\* committed job row, from the commit of the hire on.
C13_CommittedReferencesExist ==
    \A r \in DOMAIN committed["hired_employees"] :
        LET hire == committed["hired_employees"][r].cols
        IN  /\ CommittedWithId("departments", hire["department_id"]) # {}
            /\ CommittedWithId("jobs", hire["job_id"]) # {}

\* A hire of department 2 was committed by a call that began when the store had
\* one department: the other call committed the second one before the check.
C13_Witness ==
    /\ pc = "done"
    /\ response.kind = "outcome"
    /\ Len(before["departments"]) = 1
    /\ other.pc = "done"
    /\ \E r \in DOMAIN committed["hired_employees"] :
           committed["hired_employees"][r].cols["department_id"] = Num(2)

\* ------------------------------------------------------------------ restore_table

\* Most rows of a backed-up table.
MaxBackupRows == 2

VALID_TABLES == {"departments", "jobs", "hired_employees"}

IsoDates == {"2021-05-15"}
IsoTimes == {"14:30:00"}

\* str() of a timestamp with an offset, as astype(str) gives it: date, blank, time, offset.
astype_str(dt) ==
    LET parts == CHOOSE q \in IsoDates \X IsoTimes : q[1] \o "T" \o q[2] = dt.s[1]
    IN  <<parts[1], " ", parts[2]>> \o Tail(dt.s)

\* save_as_avro: the record of a row, all its columns with the id; hire_datetime
\* becomes a string, its blank replaced by "T" and a "Z" put after it.
AvroRecord(row) ==
    ("id" :> Num(row.id)) @@
    [c \in DOMAIN row.cols |->
        IF c = "hire_datetime"
        THEN Str(str_replace(astype_str(row.cols[c]), " ", "T") \o <<"Z">>)
        ELSE row.cols[c]]

save_as_avro(rows) == [k \in DOMAIN rows |-> AvroRecord(rows[k])]

\* The rows a backup can have been taken of.
BackupRows(table) ==
    IF table = "hired_employees"
    THEN { Row(id, [name |-> Str(<<n>>),
                    hire_datetime |-> Datetime(<<"2021-05-15T14:30:00", "+00:00">>),
                    department_id |-> Num(1), job_id |-> Num(1)])
           : id \in 1..3, n \in {"A", "Old"} }
    ELSE { Row(id, TABLE_SCHEMAS[table][1] :> Str(<<n>>)) : id \in 1..3, n \in {"Eng", "Old"} }

\* The tables a backup can have been taken of: rows in the order of their ids, no
\* id twice, at least one row (an empty table is not backed up).
Snapshots(table) ==
    { rows \in UNION { [1..n -> BackupRows(table)] : n \in 1..MaxBackupRows } :
          \A a, b \in DOMAIN rows : a < b => rows[a].id < rows[b].id }

\* pd.to_datetime(column.str.replace("Z", ""), format="%Y-%m-%dT%H:%M:%S%z", utc=True)
to_datetime(value) ==
    LET replaced == str_replace(value.s, "Z", "")
        toks == SelectSeq(replaced, LAMBDA x : x # "")
    IN  IF /\ value.t = "str"
           /\ Len(toks) = 4
           /\ toks[1] \in IsoDates /\ toks[2] = "T" /\ toks[3] \in IsoTimes
           /\ toks[4] \in IsoOffsets
        THEN [raised |-> "none", value |-> Datetime(<<toks[1] \o "T" \o toks[3], "+00:00">>)]
        ELSE [raised |-> "ValueError", value |-> Datetime(<<>>)]

\* Faulty variant: INSERT without the ON CONFLICT clause.
InsertWithoutConflict(rows, rec) ==
    Append(rows, Row(rec["id"].n, [c \in DOMAIN rec \ {"id"} |-> rec[c]]))

\* INSERT INTO <table> (<columns>) VALUES (...) ON CONFLICT (id) DO UPDATE SET
\* <col>=EXCLUDED.<col>, for one tuple of the frame.
Upsert(rows, rec) ==
    LET cols == [c \in DOMAIN rec \ {"id"} |-> rec[c]]
    IN  IF \E k \in DOMAIN rows : rows[k].id = rec["id"].n
        THEN [k \in DOMAIN rows |->
                 IF rows[k].id = rec["id"].n
                 THEN Row(rows[k].id, cols @@ rows[k].cols)
                 ELSE rows[k]]
        ELSE Append(rows, Row(rec["id"].n, cols))

RECURSIVE UpsertAll(_, _)
\* The statement executed for the tuples of the frame, one after the other.
UpsertAll(rows, recs) ==
    IF recs = <<>> THEN rows ELSE UpsertAll(Upsert(rows, Head(recs)), Tail(recs))

ingestVars == <<pc, conn, txn, pending, request, records, i, valid_records,
                failed_records, dep_exists, j, exc, response, before, log, first, other>>

\* python restore.py <table_name>: main() calls restore_table. The bucket holds the
\* backup of a table as it once was, or none.
RestoreInvoked ==
    /\ restore.pc = "idle"
    /\ \E table \in VALID_TABLES \cup {"unknown_table"}, stored \in BOOLEAN :
          \E snapshot \in Snapshots(IF table \in VALID_TABLES THEN table ELSE "jobs") :
              restore' = [pc |-> "check_table", table |-> table,
                          s3 |-> IF stored /\ table \in VALID_TABLES
                                 THEN save_as_avro(snapshot) ELSE <<>>,
                          snapshot |-> IF stored /\ table \in VALID_TABLES
                                       THEN snapshot ELSE <<>>,
                          df |-> <<>>, conn |-> "none", result |-> "none", run |-> 1,
                          before |-> committed, begun |-> committed,
                          firstResult |-> "none", afterFirst |-> committed]
    /\ UNCHANGED <<ingestVars, committed, nextId>>

\* if table_name not in VALID_TABLES: return
RestoreCheckTable ==
    /\ restore.pc = "check_table"
    /\ restore' = IF restore.table \notin VALID_TABLES
                  THEN [restore EXCEPT !.pc = "returned", !.result = "invalid_table"]
                  ELSE [restore EXCEPT !.pc = "download"]
    /\ UNCHANGED <<ingestVars, committed, nextId>>

\* download_from_s3, then the file is read: no backup, a failed download, an
\* unreadable file or one without records end the run.
RestoreDownload ==
    /\ restore.pc = "download"
    /\ \E download_success \in (IF restore.s3 = <<>> THEN {FALSE} ELSE BOOLEAN),
          readable \in BOOLEAN :
          restore' =
              IF ~download_success
              THEN [restore EXCEPT !.pc = "returned", !.result = "no_backup"]
              ELSE IF ~readable
              THEN [restore EXCEPT !.pc = "returned", !.result = "unreadable"]
              ELSE IF restore.s3 = <<>>
              THEN [restore EXCEPT !.pc = "returned", !.result = "no_data"]
              ELSE [restore EXCEPT !.pc = "convert", !.df = restore.s3]
    /\ UNCHANGED <<ingestVars, committed, nextId>>

\* if "hire_datetime" in df.columns: the column is parsed; an exception of the
\* parse is not caught.
RestoreConvert ==
    /\ restore.pc = "convert"
    /\ LET parsed == [k \in DOMAIN restore.df |->
                         IF "hire_datetime" \in DOMAIN restore.df[k]
                         THEN to_datetime(restore.df[k]["hire_datetime"])
                         ELSE [raised |-> "none", value |-> Datetime(<<>>)]]
       IN  restore' =
               IF \E k \in DOMAIN parsed : parsed[k].raised # "none"
               THEN [restore EXCEPT !.pc = "raised", !.result = "raised"]
               ELSE [restore EXCEPT
                        !.pc = "connect",
                        !.df = [k \in DOMAIN restore.df |->
                                   IF "hire_datetime" \in DOMAIN restore.df[k]
                                   THEN [restore.df[k] EXCEPT
                                            !["hire_datetime"] = parsed[k].value]
                                   ELSE restore.df[k]]]
    /\ UNCHANGED <<ingestVars, committed, nextId>>

\* conn = await get_db_connection(), outside the try: its exception is not caught.
RestoreConnect ==
    /\ restore.pc = "connect"
    /\ \E ok \in BOOLEAN :
          restore' = IF ok
                     THEN [restore EXCEPT !.pc = "execute", !.conn = "open"]
                     ELSE [restore EXCEPT !.pc = "raised", !.result = "raised"]
    /\ UNCHANGED <<ingestVars, committed, nextId>>

\* await conn.executemany(sql_query, tuples of the frame): every tuple is upserted;
\* or the store fails, after any number of them has been written, and the
\* exception is logged.
RestoreExecuteMany ==
    /\ restore.pc = "execute"
    /\ \/ /\ committed' = [committed EXCEPT
                              ![restore.table] = UpsertAll(@, restore.df)]
          /\ restore' = [restore EXCEPT !.pc = "close", !.result = "restored"]
       \/ \E done \in 0..(Len(restore.df) - 1) :
             /\ committed' = [committed EXCEPT
                                 ![restore.table] = UpsertAll(@, SubSeq(restore.df, 1, done))]
             /\ restore' = [restore EXCEPT !.pc = "close", !.result = "failed"]
    /\ UNCHANGED <<ingestVars, nextId>>

\* finally: await conn.close()
RestoreClose ==
    /\ restore.pc = "close"
    /\ restore' = [restore EXCEPT !.pc = "returned", !.conn = "closed"]
    /\ UNCHANGED <<ingestVars, committed, nextId>>

\* python restore.py <table_name> once more, with the same backup in the bucket.
RestoreAgain ==
    /\ restore.pc \in {"returned", "raised"}
    /\ restore.run = 1
    /\ restore' = [restore EXCEPT
                      !.pc = "check_table", !.run = 2, !.df = <<>>, !.conn = "none",
                      !.result = "none", !.begun = committed,
                      !.firstResult = restore.result, !.afterFirst = committed]
    /\ UNCHANGED <<ingestVars, committed, nextId>>

\* The store restore_table runs on; no ingest call is running.
RestoreInit ==
    /\ Init
    /\ request = [table |-> "departments", data |-> <<>>]

NextRestore ==
    \/ RestoreInvoked
    \/ RestoreCheckTable
    \/ RestoreDownload
    \/ RestoreConvert
    \/ RestoreConnect
    \/ RestoreExecuteMany
    \/ RestoreClose
    \/ RestoreAgain

SpecRestore == RestoreInit /\ [][NextRestore]_vars

\* The ids of the rows that were backed up.
BackedUpIds == IdsOf(restore.snapshot)

====
